---- MODULE Spec2Model ----
(***************************************************************************)
(* A model of pytoon's animator module (src/apple/animator.py): the asset  *)
(* loaders load_poses / load_mouths / mouth_coordinates, the sprite        *)
(* transformation mouth_transformation, the compositor render_frame and    *)
(* the encoder animate.  Each component has its own specification over the *)
(* shared variables; the variables of the other components stay idle.      *)
(***************************************************************************)
EXTENDS Integers, Sequences, FiniteSets, TLC

VARIABLES
    dirs,       \* os.listdir of assets/poses and assets/mouths
    loaded,     \* outcome of the last load_poses / load_mouths call
    rawTable,   \* data["coordinates"] of mouth_coordinates.json
    coords,     \* outcome of mouth_coordinates()
    sprite,     \* outcome of the last mouth_transformation call
    poseImg,    \* pixels of the pose image object handed to render_frame
    frames,     \* what the render_frame calls made so far returned
    images,     \* animate's argument: the list of image paths
    enc         \* animate's locals and the video writer it drives

vars == <<dirs, loaded, rawTable, coords, sprite, poseImg, frames, images, enc>>

None == [status |-> "none"]

\* ------------------------------------------------------------------ helpers

Abs(n) == IF n < 0 THEN -n ELSE n

\* Python's int(q) on the rational num/den (den > 0): truncation toward zero.
TruncDiv(num, den) == IF num >= 0 THEN num \div den ELSE -((-num) \div den)

\* ---------------------------------------------------- load_poses / load_mouths

MaxFiles == 3

\* File names, as the sequences of characters that str.split and int see.
F1   == <<"1", ".", "p", "n", "g">>
F2   == <<"2", ".", "p", "n", "g">>
F10  == <<"1", "0", ".", "p", "n", "g">>
F02  == <<"0", "2", ".", "v", "2", ".", "p", "n", "g">>
FBad == <<"a", ".", "p", "n", "g">>
FDot == <<".", "D", "S", "_", "S", "t", "o", "r", "e">>

FileNames == {F1, F2, F10, F02, FBad, FDot}

\* os.listdir: the directory's entries, each once, in arbitrary order.
Listings ==
    { l \in UNION { [1..n -> FileNames] : n \in 0..MaxFiles } :
        \A i, j \in 1..Len(l) : i # j => l[i] # l[j] }

\* x.split(".")[0]: the characters before the first "." (all of x without one).
RECURSIVE SplitFirst(_)
SplitFirst(x) ==
    IF x = <<>> \/ Head(x) = "." THEN <<>>
    ELSE <<Head(x)>> \o SplitFirst(Tail(x))

Digits == {"0", "1", "2", "3", "4", "5", "6", "7", "8", "9"}

DigitVal(c) ==
    CASE c = "0" -> 0 [] c = "1" -> 1 [] c = "2" -> 2 [] c = "3" -> 3
      [] c = "4" -> 4 [] c = "5" -> 5 [] c = "6" -> 6 [] c = "7" -> 7
      [] c = "8" -> 8 [] c = "9" -> 9

RECURSIVE DigitsVal(_, _)
DigitsVal(s, acc) ==
    IF s = <<>> THEN acc ELSE DigitsVal(Tail(s), 10 * acc + DigitVal(Head(s)))

\* int(s), base 10: an optional sign, then one or more digits; anything else
\* raises ValueError("invalid literal for int() with base 10: s").
IntParse(s) ==
    LET signed == s # <<>> /\ Head(s) \in {"+", "-"}
        body   == IF signed THEN Tail(s) ELSE s
        ok     == body # <<>> /\ \A i \in 1..Len(body) : body[i] \in Digits
    IN  IF ~ok THEN [ok |-> FALSE, val |-> 0, literal |-> s]
        ELSE [ok |-> TRUE,
              val |-> IF signed /\ Head(s) = "-"
                      THEN -DigitsVal(body, 0) ELSE DigitsVal(body, 0),
              literal |-> s]

\* The sort key of lines 55 and 64: lambda x: int(x.split(".")[0]).
SortKey(x) == IntParse(SplitFirst(x))

\* list.sort is stable: an element goes after every element whose key is not
\* greater than its own.
RECURSIVE InsertByKey(_, _)
InsertByKey(sorted, x) ==
    IF sorted = <<>> THEN <<x>>
    ELSE IF SortKey(Head(sorted)).val <= SortKey(x).val
         THEN <<Head(sorted)>> \o InsertByKey(Tail(sorted), x)
         ELSE <<x>> \o sorted

\* Mutant of SortFiles: files.sort() without the key, i.e. by character codes.
CharCode(c) ==
    CASE c = "." -> 46 [] c \in Digits -> 48 + DigitVal(c)
      [] c = "D" -> 68 [] c = "S" -> 83 [] c = "_" -> 95 [] c = "a" -> 97
      [] c = "e" -> 101 [] c = "g" -> 103 [] c = "n" -> 110 [] c = "o" -> 111
      [] c = "p" -> 112 [] c = "r" -> 114 [] c = "t" -> 116 [] c = "v" -> 118

RECURSIVE LexLeq(_, _)
LexLeq(x, y) ==
    IF x = <<>> THEN TRUE
    ELSE IF y = <<>> THEN FALSE
    ELSE IF Head(x) = Head(y) THEN LexLeq(Tail(x), Tail(y))
    ELSE CharCode(Head(x)) < CharCode(Head(y))

RECURSIVE InsertLex(_, _)
InsertLex(sorted, x) ==
    IF sorted = <<>> THEN <<x>>
    ELSE IF LexLeq(Head(sorted), x)
         THEN <<Head(sorted)>> \o InsertLex(Tail(sorted), x)
         ELSE <<x>> \o sorted

RECURSIVE SortFilesLexicographic(_)
SortFilesLexicographic(files) ==
    IF files = <<>> THEN <<>>
    ELSE InsertLex(SortFilesLexicographic(SubSeq(files, 1, Len(files) - 1)),
                   files[Len(files)])

RECURSIVE SortFiles(_)
SortFiles(files) ==
    IF files = <<>> THEN <<>>
    ELSE InsertByKey(SortFiles(SubSeq(files, 1, Len(files) - 1)), files[Len(files)])

\* os.path.join(path, file)
PathJoin(dir, file) == <<dir, file>>

\* Mutant of LoadFiles: a file whose prefix is no integer is left out.
LoadFilesSkipBad(fn, dir, listing) ==
    LET sorted == SortFiles(SelectSeq(listing, LAMBDA x : SortKey(x).ok))
    IN  [fn |-> fn, dir |-> dir, status |-> "ok", literal |-> <<>>,
         files |-> [i \in 1..Len(sorted) |-> PathJoin(dir, sorted[i])]]

\* The body shared by load_poses and load_mouths.  list.sort computes the key
\* of every element, in list order, before it moves anything: the first
\* element whose key raises ends the call, and nothing is returned.
LoadFiles(fn, dir, listing) ==
    LET bad == { i \in 1..Len(listing) : ~SortKey(listing[i]).ok }
    IN  IF bad # {}
        THEN LET first == CHOOSE i \in bad : \A j \in bad : i <= j
             IN  [fn |-> fn, dir |-> dir, status |-> "ValueError",
                  literal |-> SortKey(listing[first]).literal, files |-> <<>>]
        ELSE LET sorted == SortFiles(listing)
             IN  [fn |-> fn, dir |-> dir, status |-> "ok", literal |-> <<>>,
                  files |-> [i \in 1..Len(sorted) |-> PathJoin(dir, sorted[i])]]

IdleButLoad == UNCHANGED <<rawTable, coords, sprite, poseImg, frames, images, enc>>

load_poses ==
    /\ loaded' = LoadFiles("load_poses", "assets/poses", dirs.poses)
    /\ UNCHANGED dirs
    /\ IdleButLoad

load_mouths ==
    /\ loaded' = LoadFiles("load_mouths", "assets/mouths", dirs.mouths)
    /\ UNCHANGED dirs
    /\ IdleButLoad

InitLoad ==
    /\ dirs \in [poses : Listings, mouths : Listings]
    /\ loaded = None
    /\ rawTable = <<>> /\ coords = None /\ sprite = None
    /\ poseImg = <<>> /\ frames = <<>> /\ images = <<>> /\ enc = None

NextLoad == load_poses \/ load_mouths

SpecLoad == InitLoad /\ [][NextLoad]_vars

\* ------------------------------------------------------------ mouth_coordinates

MaxRows == 2

CorrectionFactor == 3

\* A row of the table, in the layout of the docstring (lines 70-76):
\* <<x, y, flip horizontal, resize, rotate>>.
RawRows == {-4, 10} \X {0, 20} \X {-1, 1} \X {1, 2} \X {0, 15}

RawTables == UNION { [1..n -> RawRows] : n \in 0..MaxRows }

\* Mutant of ScaleRow: coordinates *= 3, every column scaled.
ScaleRowAll(row) == [k \in 1..Len(row) |-> row[k] * CorrectionFactor]

\* coordinates[:, 0:2] *= 3 on one row: columns 0 and 1 (1 and 2 here).
ScaleRow(row) ==
    [k \in 1..Len(row) |-> IF k \in 1..2 THEN row[k] * CorrectionFactor ELSE row[k]]

\* np.array of an empty list has one dimension, and indexing it with [:, 0:2]
\* raises IndexError; any other table is scaled in place, row by row.
MouthCoordinates(table) ==
    IF table = <<>> THEN [status |-> "IndexError", coordinates |-> <<>>]
    ELSE [status |-> "ok",
          coordinates |-> [i \in 1..Len(table) |-> ScaleRow(table[i])]]

mouth_coordinates ==
    /\ coords' = MouthCoordinates(rawTable)
    /\ UNCHANGED <<dirs, loaded, rawTable, sprite, poseImg, frames, images, enc>>

InitCoords ==
    /\ rawTable \in RawTables
    /\ coords = None
    /\ dirs = None /\ loaded = None /\ sprite = None
    /\ poseImg = <<>> /\ frames = <<>> /\ images = <<>> /\ enc = None

NextCoords == mouth_coordinates

SpecCoords == InitCoords /\ [][NextCoords]_vars

\* --------------------------------------------------------- mouth_transformation

MaxMouthW == 4
MaxMouthH == 2

\* transformation[2] and transformation[3] are floats; the model holds twice
\* their value, so that 0.5 and 1.5 are integers: 2 stands for 1.0, -2 for -1.

FlipEntries   == {-2, 2, 3}
ResizeEntries == {1, 2, 3, 4}
RotateEntries == {0, 90}

\* Pillow's Image.Resampling values.
LANCZOS == 1
Resamplings == 0..5

\* Image.resize(size, resample, box) as Pillow checks its arguments: an unknown
\* resample raises ValueError, then tuple(size) raises TypeError on an int.
ImageResize(img, size, resample, box) ==
    IF resample \notin Resamplings THEN [img EXCEPT !.status = "ValueError"]
    ELSE IF size.kind # "pair" THEN [img EXCEPT !.status = "TypeError"]
    ELSE [img EXCEPT !.size = size.val, !.ops = Append(@, "resize")]

\* Lines 116-119.  new_width is computed from transformation[2], the flip
\* entry, and the three arguments of resize are passed positionally.
ScaleStep(img, t) ==
    LET og_width   == img.size[1]
        og_height  == img.size[2]
        new_width  == TruncDiv(Abs(og_width * t[3]), 2)
        new_height == TruncDiv(og_height * t[4], 2)
        called     == [img EXCEPT !.target = <<new_width, new_height>>,
                                  !.scaled = TRUE]
    IN  ImageResize(called, [kind |-> "int", val |-> new_width], new_height, LANCZOS)

\* Line 113: transpose(FLIP_LEFT_RIGHT).
FlipStep(img) == [img EXCEPT !.mirrored = ~@, !.ops = Append(@, "flip")]

\* Line 122: rotate(-transformation[4], resample=BICUBIC), canvas size kept.
RotateStep(img, t) ==
    [img EXCEPT !.angle = -t[5], !.ops = Append(@, "rotate")]

\* mouth_transformation on an image of size (w, h); t is the table row.
MouthTransformation(w, h, t) ==
    LET opened  == [status |-> "ok", size |-> <<w, h>>, mirrored |-> FALSE,
                    angle |-> 0, ops |-> <<>>, scaled |-> FALSE,
                    target |-> <<w, h>>, og |-> <<w, h>>, t |-> t]
        flipped == IF t[3] = -2 THEN FlipStep(opened) ELSE opened
        resized == IF t[4] # 2 THEN ScaleStep(flipped, t) ELSE flipped
    IN  IF resized.status # "ok" THEN resized
        ELSE IF t[5] # 0 THEN RotateStep(resized, t) ELSE resized

mouth_transformation ==
    /\ \E w \in 1..MaxMouthW, h \in 1..MaxMouthH,
          f \in FlipEntries, s \in ResizeEntries, r \in RotateEntries :
           sprite' = MouthTransformation(w, h, <<0, 0, f, s, r>>)
    /\ UNCHANGED <<dirs, loaded, rawTable, coords, poseImg, frames, images, enc>>

InitTransform ==
    /\ sprite = None
    /\ dirs = None /\ loaded = None /\ rawTable = <<>> /\ coords = None
    /\ poseImg = <<>> /\ frames = <<>> /\ images = <<>> /\ enc = None

NextTransform == mouth_transformation

SpecTransform == InitTransform /\ [][NextTransform]_vars

\* ----------------------------------------------------------------- render_frame

PoseW == 3
PoseH == 2
MaxSpriteW == 2
MaxSpriteH == 2
MaxTicks == 2

Canvas == (0..(PoseW - 1)) \X (0..(PoseH - 1))

\* One 8-bit band of the pose, and of the sprite with its alpha band.
PoseBackgrounds == {0, 100}
SpriteValues == {255}
SpriteAlphas == {0, 128, 255}

\* transformation[0] and transformation[1] are floats; the model holds twice
\* their value, so the anchor 1.5 is the integer 3.
AnchorsX == (-1)..(2 * PoseW - 1)
AnchorsY == 0..(2 * PoseH - 1)

\* Lines 131-134: int(transformation[k] - size / 2), with the difference held
\* as (2 * transformation[k] - size) / 2.
PasteCoordinate(anchor2, size) == TruncDiv(anchor2 - size, 2)

\* Pillow's paste through a mask blends each band as
\* DIV255(dst * (255 - mask) + src * mask), DIV255(a) being
\* t = a + 128, ((t >> 8) + t) >> 8.
Blend(dst, src, mask) ==
    LET t == dst * (255 - mask) + src * mask + 128
    IN  ((t \div 256) + t) \div 256

\* Image.paste(im, box, mask) with a 2-tuple box: im's pixels go to the region
\* whose top-left corner is box, clipped to the canvas, in place.
Paste(canvas, mouth, box) ==
    [c \in Canvas |->
        IF /\ c[1] >= box[1] /\ c[1] < box[1] + mouth.w
           /\ c[2] >= box[2] /\ c[2] < box[2] + mouth.h
        THEN Blend(canvas[c], mouth.v, mouth.a)
        ELSE canvas[c]]

\* The image object render_frame returns (line 140): its argument pose_img.
ReturnedImage == "pose_img"

render_frame ==
    /\ Len(frames) < MaxTicks
    /\ \E w \in 1..MaxSpriteW, h \in 1..MaxSpriteH,
          v \in SpriteValues, a \in SpriteAlphas,
          x2 \in AnchorsX, y2 \in AnchorsY :
          LET mouth_img == [w |-> w, h |-> h, v |-> v, a |-> a]
              paste_coordinates == <<PasteCoordinate(x2, w), PasteCoordinate(y2, h)>>
              pasted == Paste(poseImg, mouth_img, paste_coordinates)
          IN  /\ poseImg' = pasted
              /\ frames' = Append(frames,
                     [ref |-> ReturnedImage, pixels |-> pasted, before |-> poseImg,
                      box |-> paste_coordinates, mouth |-> mouth_img,
                      t |-> <<x2, y2>>])
    /\ UNCHANGED <<dirs, loaded, rawTable, coords, sprite, images, enc>>

InitRender ==
    /\ \E bg \in PoseBackgrounds : poseImg = [c \in Canvas |-> bg]
    /\ frames = <<>>
    /\ dirs = None /\ loaded = None /\ rawTable = <<>> /\ coords = None
    /\ sprite = None /\ images = <<>> /\ enc = None

NextRender == render_frame

SpecRender == InitRender /\ [][NextRender]_vars

\* ---------------------------------------------------------------------- animate

MaxFrames == 3

Fps == 24

\* The files behind the paths: a and b hold different pictures of one size, c a
\* picture of another size, and x cannot be read as an image.
Paths == {"a.png", "b.png", "c.png", "x.png"}

\* cv2.imread: the picture, or None for a file it cannot read.
Imread(path) ==
    CASE path = "a.png" -> [status |-> "ok", shape |-> <<2, 4>>, data |-> "A"]
      [] path = "b.png" -> [status |-> "ok", shape |-> <<2, 4>>, data |-> "B"]
      [] path = "c.png" -> [status |-> "ok", shape |-> <<2, 2>>, data |-> "C"]
      [] OTHER -> None

ImageLists == UNION { [1..n -> Paths] : n \in 0..MaxFrames }

\* Whether the writer can encode the frame: a picture of the size it was
\* opened with.
Fits(frame, frame_size) ==
    frame # None /\ <<frame.shape[2], frame.shape[1]>> = frame_size

\* cv2.VideoWriter.write of a frame the writer cannot encode: the backend
\* either drops the frame without telling the caller or raises cv2.error.
WriteOutcomes(frame, frame_size) ==
    IF Fits(frame, frame_size) THEN {"written"} ELSE {"dropped", "cv2.error"}

\* Mutant of LoopImage: the loop writes the image read before it, images[0].
LoopImageFirst(imgs, i) == imgs[1]

\* Line 45: the path the loop reads at its i-th iteration.
LoopImage(imgs, i) == imgs[i]

\* Lines 37-42: read the first image for its size and open the writer.
animate_open ==
    /\ enc.pc = "start"
    /\ IF images = <<>>
       THEN enc' = [enc EXCEPT !.pc = "raised", !.err = "IndexError"]
       ELSE LET img == Imread(images[1])
            IN  IF img = None
                THEN enc' = [enc EXCEPT !.pc = "raised", !.err = "AttributeError"]
                ELSE enc' = [enc EXCEPT !.pc = "loop", !.i = 1,
                                        !.writer = "open", !.opens = @ + 1,
                                        !.frame_size = <<img.shape[2], img.shape[1]>>,
                                        !.fps = Fps]
    /\ UNCHANGED <<dirs, loaded, rawTable, coords, sprite, poseImg, frames, images>>

\* Lines 44-46: one iteration of the loop.
animate_write ==
    /\ enc.pc = "loop"
    /\ enc.i <= Len(images)
    /\ LET image == LoopImage(images, enc.i)
           frame == Imread(image)
           call  == [path |-> image, frame |-> frame]
       IN  \E outcome \in WriteOutcomes(frame, enc.frame_size) :
              enc' = [enc EXCEPT
                        !.calls = Append(@, call),
                        !.stream = IF outcome = "written" THEN Append(@, frame) ELSE @,
                        !.i = IF outcome = "cv2.error" THEN @ ELSE @ + 1,
                        !.pc = IF outcome = "cv2.error" THEN "raised" ELSE @,
                        !.err = IF outcome = "cv2.error" THEN "cv2.error" ELSE @]
    /\ UNCHANGED <<dirs, loaded, rawTable, coords, sprite, poseImg, frames, images>>

\* Lines 47-48: release the writer and return.
animate_release ==
    /\ enc.pc = "loop"
    /\ enc.i > Len(images)
    /\ enc' = [enc EXCEPT !.writer = "released", !.pc = "returned"]
    /\ UNCHANGED <<dirs, loaded, rawTable, coords, sprite, poseImg, frames, images>>

InitAnimate ==
    /\ images \in ImageLists
    /\ enc = [pc |-> "start", i |-> 0, writer |-> "none", opens |-> 0,
              frame_size |-> <<0, 0>>, fps |-> 0, calls |-> <<>>,
              stream |-> <<>>, err |-> "none"]
    /\ dirs = None /\ loaded = None /\ rawTable = <<>> /\ coords = None
    /\ sprite = None /\ poseImg = <<>> /\ frames = <<>>

NextAnimate == animate_open \/ animate_write \/ animate_release

SpecAnimate == InitAnimate /\ [][NextAnimate]_vars

\* ======================================================================= claims

\* ---- load_poses / load_mouths (SpecLoad)

ListingOf(r) == IF r.fn = "load_poses" THEN dirs.poses ELSE dirs.mouths
DirOf(r) == IF r.fn = "load_poses" THEN "assets/poses" ELSE "assets/mouths"
BadNames(listing) == { i \in 1..Len(listing) : ~SortKey(listing[i]).ok }

\* C5: for a directory whose files are all named <integer>.<ext>, load_poses
\* and load_mouths return every file of the listing exactly once (joined to
\* the directory), in non-decreasing order of the integer before the first ".".
C5_NumericOrder ==
    (loaded # None /\ BadNames(ListingOf(loaded)) = {}) =>
        LET listing == ListingOf(loaded)
            files   == loaded.files
        IN  /\ loaded.status = "ok"
            /\ Len(files) = Len(listing)
            /\ \A i \in 1..Len(listing) :
                  Cardinality({ j \in 1..Len(files) :
                                  files[j] = PathJoin(DirOf(loaded), listing[i]) }) = 1
            /\ \A j \in 1..(Len(files) - 1) :
                  SortKey(files[j][2]).val <= SortKey(files[j + 1][2]).val

\* C5 witness: the listing 2.png, 10.png, 1.png comes back as 1.png, 2.png, 10.png.
C5_Witness ==
    /\ loaded # None
    /\ loaded.fn = "load_poses"
    /\ dirs.poses = <<F2, F10, F1>>
    /\ loaded.status = "ok"
    /\ loaded.files = <<PathJoin("assets/poses", F1), PathJoin("assets/poses", F2),
                        PathJoin("assets/poses", F10)>>

C6_TripledXY ==
    /\ (coords # None /\ rawTable # <<>>) => coords.status = "ok"
    /\ (coords # None /\ coords.status = "ok") =>
          /\ Len(coords.coordinates) = Len(rawTable)
          /\ \A i \in 1..Len(rawTable) :
                LET raw == rawTable[i]
                    row == coords.coordinates[i]
                IN  /\ Len(row) = Len(raw)
                    /\ row[1] = 3 * raw[1]
                    /\ row[2] = 3 * raw[2]
                    /\ \A k \in 3..Len(raw) : row[k] = raw[k]

\* C6 witness: raw x = 10, y = 20 was loaded as x = 30, y = 60, with a
\* resize entry other than 1 in the row.
C6_Witness ==
    /\ coords # None
    /\ coords.status = "ok"
    /\ rawTable = << <<10, 20, -1, 2, 15>> >>
    /\ coords.coordinates = << <<30, 60, -1, 2, 15>> >>

\* ---- animate (SpecAnimate)

Exited == enc # None /\ enc.pc \in {"returned", "raised"}

\* C9: the k-th write animate performs is the frame read from the k-th path
\* of its argument, so the writes made are at every moment a prefix of the
\* input; on return there are exactly as many writes as paths; and the one
\* writer is opened once, at 24 frames per second.
C9_WritesInOrder ==
    enc # None =>
        /\ Len(enc.calls) <= Len(images)
        /\ \A k \in 1..Len(enc.calls) :
              enc.calls[k] = [path |-> images[k], frame |-> Imread(images[k])]
        /\ enc.opens <= 1
        /\ enc.writer # "none" => enc.fps = 24
        /\ enc.pc = "returned" =>
              /\ Len(enc.calls) = Len(images)
              /\ enc.opens = 1

\* C9 witness: animate returned after three writes of three different paths.
C9_Witness ==
    /\ enc # None
    /\ enc.pc = "returned"
    /\ images = <<"b.png", "a.png", "c.png">>
    /\ Len(enc.calls) = 3

\* C7 as stated: when animate exits after opening the writer, the writer has
\* been released, and an output short of the input comes with an error.
C7_ReleasedOnExit ==
    (Exited /\ enc.opens > 0) =>
        /\ enc.writer = "released"
        /\ Len(enc.stream) < Len(images) => enc.pc = "raised"

DifferentSize(k) ==
    /\ Imread(images[k]) # None
    /\ ~Fits(Imread(images[k]), enc.frame_size)

\* C8 as stated: when some frame has another size than the first, animate
\* exits with an error at the first such frame and writes no later frame.
C8_MismatchIsFatal ==
    (Exited /\ enc.opens > 0 /\ \E k \in 1..Len(images) : DifferentSize(k)) =>
        LET first == CHOOSE k \in 1..Len(images) :
                        /\ DifferentSize(k)
                        /\ \A j \in 1..Len(images) : DifferentSize(j) => k <= j
        IN  /\ enc.pc = "raised"
            /\ Len(enc.calls) <= first

\* ---- render_frame (SpecRender)

\* round(q) of the claims on the rational num/2: to nearest, a tie going to
\* the even integer as Python's round does.
RoundHalf(num) ==
    LET fl == num \div 2
    IN  IF num % 2 = 0 THEN fl
        ELSE IF fl % 2 = 0 THEN fl ELSE fl + 1

\* C1 as stated: after each call the pose holds the pixels it held before,
\* and the frame returned is another image than the pose.
C1_PoseUntouched ==
    \A n \in 1..Len(frames) :
        /\ frames[n].pixels = frames[n].before
        /\ frames[n].ref # "pose_img"

\* C2 as stated: the sprite is pasted with its top-left corner at
\* (round(x - w/2), round(y - h/2)).
C2_RoundedAnchor ==
    \A n \in 1..Len(frames) :
        frames[n].box = <<RoundHalf(frames[n].t[1] - frames[n].mouth.w),
                          RoundHalf(frames[n].t[2] - frames[n].mouth.h)>>

\* C4 as stated: two render_frame calls with the same pose, sprite and
\* transform return frames that are equal pixel for pixel.
C4_Deterministic ==
    \A m, n \in 1..Len(frames) :
        (frames[m].mouth = frames[n].mouth /\ frames[m].t = frames[n].t) =>
            frames[m].pixels = frames[n].pixels

\* ---- mouth_transformation (SpecTransform)

\* C3 as stated, the row's resize entry being the scale of both axes: the
\* scale step runs exactly when the scale is not 1, it resizes (w, h) to
\* (round(w * |scale|), round(h * |scale|)) whatever the flip entry is, and it
\* comes after the flip and before the rotation.
C3_ScaleStep ==
    sprite # None =>
        LET scale2 == sprite.t[4]
            w == sprite.og[1]
            h == sprite.og[2]
        IN  /\ sprite.scaled <=> scale2 # 2
            /\ sprite.scaled =>
                  /\ sprite.status = "ok"
                  /\ sprite.target = <<RoundHalf(w * Abs(scale2)),
                                       RoundHalf(h * Abs(scale2))>>
                  /\ sprite.size = sprite.target
            /\ sprite.status = "ok" =>
                  sprite.ops = SelectSeq(<<"flip", "resize", "rotate">>,
                                  LAMBDA op : \/ op = "flip" /\ sprite.t[3] = -2
                                              \/ op = "resize" /\ scale2 # 2
                                              \/ op = "rotate" /\ sprite.t[5] # 0)

====
